---- MODULE Spec2Model ----
(***************************************************************************)
(* EvalMetricsTracker (src/metrics/eval_metrics_tracker.py): the running   *)
(* sums, the per-frame histories and the sample counter of one tracker,    *)
(* driven by initialise_metric_sums, initialise_per_frame_metric_lists,    *)
(* update_per_batch and compute_final_metrics.                             *)
(*                                                                         *)
(* Data abstraction.  Every array a batch carries is uniform along its     *)
(* point axis: one integer v per sample stands for "every point of the     *)
(* sample differs from its target by the vector (v, 0, 0)", so that        *)
(* np.linalg.norm gives |v| for each of the points.  The aligned           *)
(* predictions of the _sc and _pa metrics and the measurements of the      *)
(* SMPL extractor come from code outside this file; their differences to   *)
(* the target are inputs of the batch like the others.  Python floats,     *)
(* numpy scalars and numpy arrays are told apart because "+=" and "/"      *)
(* act differently on them.                                                *)
(***************************************************************************)
EXTENDS Integers, Sequences, FiniteSets, TLC

\* ---------------------------------------------------------------- bounds
MaxBatch == 2
MaxUpdates == 2
MaxCandidates == 2
MaxOff == 0
MaxNoSymm == 2

\* ------------------------------------------------- shapes of the inputs
NumVerts == 6890
NumJoints3D == 14
NumJoints2D == 17
NumShapeParams == 10
NumPoseElems == 24 * 3 * 3
NumPixels == 4
NumNoSymm == 23

\* ------------------------------------------------------------ identifiers
\* The identifiers update_per_batch looks for, in the order of its blocks.
DispatchOrder ==
  << "pves", "pves_sc", "pves_pa", "pve-ts", "pve-ts_sc", "pve-ts_pa",
     "mpjpes", "mpjpes_sc", "mpjpes_pa",
     "pves_samples_min", "pves_sc_samples_min", "pves_pa_samples_min",
     "pve-ts_samples_min", "pve-ts_sc_samples_min",
     "mpjpes_samples_min", "mpjpes_sc_samples_min", "mpjpes_pa_samples_min",
     "pose_mses", "shape_mses", "joints2D_l2es", "joints2Dsamples_l2es",
     "silhouette_ious", "silhouettesamples_ious",
     "measurements_mae", "smpl_measurements_mae" >>

\* An identifier no block of update_per_batch and no branch of
\* compute_final_metrics knows.
UnknownMetric == "chamfer_dists"

Range(s) == { s[i] : i \in 1..Len(s) }

KnownMetrics == Range(DispatchOrder)

MetricIds == KnownMetrics \cup {UnknownMetric}

\* The characters of an identifier, for Python's substring test.
Spell(name) ==
  CASE name = "pves" -> <<"p","v","e","s">>
    [] name = "pves_sc" -> <<"p","v","e","s","_","s","c">>
    [] name = "pves_pa" -> <<"p","v","e","s","_","p","a">>
    [] name = "pve-ts" -> <<"p","v","e","-","t","s">>
    [] name = "pve-ts_sc" -> <<"p","v","e","-","t","s","_","s","c">>
    [] name = "pve-ts_pa" -> <<"p","v","e","-","t","s","_","p","a">>
    [] name = "mpjpes" -> <<"m","p","j","p","e","s">>
    [] name = "mpjpes_sc" -> <<"m","p","j","p","e","s","_","s","c">>
    [] name = "mpjpes_pa" -> <<"m","p","j","p","e","s","_","p","a">>
    [] name = "pves_samples_min" -> <<"p","v","e","s","_","s","a","m","p","l","e","s","_","m","i","n">>
    [] name = "pves_sc_samples_min" -> <<"p","v","e","s","_","s","c","_","s","a","m","p","l","e","s","_","m","i","n">>
    [] name = "pves_pa_samples_min" -> <<"p","v","e","s","_","p","a","_","s","a","m","p","l","e","s","_","m","i","n">>
    [] name = "pve-ts_samples_min" -> <<"p","v","e","-","t","s","_","s","a","m","p","l","e","s","_","m","i","n">>
    [] name = "pve-ts_sc_samples_min" -> <<"p","v","e","-","t","s","_","s","c","_","s","a","m","p","l","e","s","_","m","i","n">>
    [] name = "mpjpes_samples_min" -> <<"m","p","j","p","e","s","_","s","a","m","p","l","e","s","_","m","i","n">>
    [] name = "mpjpes_sc_samples_min" -> <<"m","p","j","p","e","s","_","s","c","_","s","a","m","p","l","e","s","_","m","i","n">>
    [] name = "mpjpes_pa_samples_min" -> <<"m","p","j","p","e","s","_","p","a","_","s","a","m","p","l","e","s","_","m","i","n">>
    [] name = "pose_mses" -> <<"p","o","s","e","_","m","s","e","s">>
    [] name = "shape_mses" -> <<"s","h","a","p","e","_","m","s","e","s">>
    [] name = "joints2D_l2es" -> <<"j","o","i","n","t","s","2","D","_","l","2","e","s">>
    [] name = "joints2Dsamples_l2es" -> <<"j","o","i","n","t","s","2","D","s","a","m","p","l","e","s","_","l","2","e","s">>
    [] name = "silhouette_ious" -> <<"s","i","l","h","o","u","e","t","t","e","_","i","o","u","s">>
    [] name = "silhouettesamples_ious" -> <<"s","i","l","h","o","u","e","t","t","e","s","a","m","p","l","e","s","_","i","o","u","s">>
    [] name = "measurements_mae" -> <<"m","e","a","s","u","r","e","m","e","n","t","s","_","m","a","e">>
    [] name = "smpl_measurements_mae" -> <<"s","m","p","l","_","m","e","a","s","u","r","e","m","e","n","t","s","_","m","a","e">>
    [] name = "chamfer_dists" -> <<"c","h","a","m","f","e","r","_","d","i","s","t","s">>

\* Python's "sub in name" on strings.
Contains(sub, name) ==
  LET s == Spell(name)
  IN  \E i \in 0..(Len(s) - Len(sub)) : SubSeq(s, i + 1, i + Len(sub)) = sub

\* ---------------------------------------------------------- configuration
\* config.METAIL_MEASUREMENTS: the named measurements of measurements_mae.
METAIL_MEASUREMENTS == << "chest", "waist" >>

\* The names config.ALL_MEAS_NAMES_NO_SYMM is cut from.
NoSymmNamePool ==
  << "m01", "m02", "m03", "m04", "m05", "m06", "m07", "m08", "m09", "m10",
     "m11", "m12", "m13", "m14", "m15", "m16", "m17", "m18", "m19", "m20",
     "m21", "m22", "m23", "m24" >>

\* The lengths config.ALL_MEAS_NAMES_NO_SYMM is given in the model: short
\* lists and the list of 23 names.
NoSymmLengths == (1..MaxNoSymm) \cup {NumNoSymm}

\* Metrics that are configured two at a time, in both orders.
PairIds ==
  { "pves", "pves_samples_min", "joints2D_l2es", UnknownMetric }

\* The metric lists a tracker is constructed with.
Configs ==
  { << m >> : m \in MetricIds } \cup
  { p \in PairIds \X PairIds : p[1] # p[2] }

\* ------------------------------------------------------------------ state
VARIABLES
  metrics_to_track,        \* self.metrics_to_track, a list
  save_per_frame_metrics,  \* self.save_per_frame_metrics
  ALL_MEAS_NAMES_NO_SYMM,  \* config.ALL_MEAS_NAMES_NO_SYMM
  metric_sums,             \* self.metric_sums: None or slot name -> value
  total_samples,           \* self.total_samples
  per_frame_metrics,       \* self.per_frame_metrics: unset or metric -> list
  final_metrics,           \* the mapping the last compute_final_metrics built
  saved,                   \* the files np.save has written, name -> array
  raised,                  \* exception of the last call, "none" if it returned
  last_call,               \* history: the method called last
  num_updates,             \* history: the update_per_batch calls made
  sum_args,                \* history: the sum of their num_input_samples
  calls                    \* history: the batches fed so far, kept while the
                           \* run is: both initialisers, then updates that return

vars ==
  << metrics_to_track, save_per_frame_metrics, ALL_MEAS_NAMES_NO_SYMM,
     metric_sums, total_samples, per_frame_metrics, final_metrics, saved,
     raised, last_call, num_updates, sum_args, calls >>

config_vars ==
  << metrics_to_track, save_per_frame_metrics, ALL_MEAS_NAMES_NO_SYMM >>

\* ----------------------------------------------------------------- values
EmptyDict == [k \in {} |-> 0]

\* Python's None, and an attribute that was never assigned.
None == [none |-> TRUE, d |-> EmptyDict]

Dict(f) == [none |-> FALSE, d |-> f]

\* A slot holds a Python float ("float"), a numpy scalar ("f64") or a
\* one-dimensional numpy array ("arr"); v lists the numbers (one for a scalar).
PyFloat(x) == [kind |-> "float", v |-> << x >>]

NpScalar(x) == [kind |-> "f64", v |-> << x >>]

NpArray(xs) == [kind |-> "arr", v |-> xs]

Abs(x) == IF x < 0 THEN 0 - x ELSE x

RECURSIVE SumSeq(_)
SumSeq(xs) == IF xs = << >> THEN 0 ELSE Head(xs) + SumSeq(Tail(xs))

MapSeq(Op(_), xs) == [i \in 1..Len(xs) |-> Op(xs[i])]

RECURSIVE Flatten(_)
Flatten(xss) == IF xss = << >> THEN << >> ELSE Head(xss) \o Flatten(Tail(xss))

\* A quotient num/den kept exact; den = 0 stands for numpy's nan or inf.
Frac(num, den) == [num |-> num, den |-> den]

FracLess(a, b) == a.num * b.den < b.num * a.den

FracEq(a, b) == a.num * b.den = b.num * a.den /\ (a.den = 0) = (b.den = 0)

\* The recorded batches of a run that kept to the order, and the mark of a
\* run that did not.
InOrder(bs) == [on |-> TRUE, seq |-> bs]

OutOfOrder == [on |-> FALSE, seq |-> << >>]

\* An initialiser called once updates were made leaves the order.
AfterInitialiser == IF calls.on /\ calls.seq = << >> THEN calls ELSE OutOfOrder

\* --------------------------------------------------------------- __init__
Init ==
  /\ metrics_to_track \in Configs
  /\ save_per_frame_metrics \in BOOLEAN
  /\ ALL_MEAS_NAMES_NO_SYMM \in
       { SubSeq(NoSymmNamePool, 1, l) :
           l \in IF "smpl_measurements_mae" \in Range(metrics_to_track)
                 THEN NoSymmLengths ELSE {NumNoSymm} }
  /\ metric_sums = None
  /\ total_samples = 0
  /\ per_frame_metrics = None
  /\ final_metrics = None
  /\ saved = EmptyDict
  /\ raised = "none"
  /\ last_call = "__init__"
  /\ num_updates = 0
  /\ sum_args = 0
  /\ calls = InOrder(<< >>)

\* ------------------------------------------------- initialise_metric_sums
\* A variant that forgets the slot of the visible-pair count.
SlotsOfWithoutPairCount(metric_type, no_symm) ==
  IF metric_type = "silhouette_ious"
  THEN << "num_true_positives", "num_false_positives",
          "num_true_negatives", "num_false_negatives" >>
  ELSE IF metric_type = "silhouettesamples_ious"
  THEN << "num_samples_true_positives", "num_samples_false_positives",
          "num_samples_true_negatives", "num_samples_false_negatives" >>
  ELSE IF metric_type = "measurements_mae"
  THEN METAIL_MEASUREMENTS
  ELSE IF metric_type = "smpl_measurements_mae"
  THEN no_symm \o << "smpl_meas_error_all" >>
  ELSE << metric_type >>

\* The slots one metric owns, in the order the branch writes them.
SlotsOf(metric_type, no_symm) ==
  IF metric_type = "silhouette_ious"
  THEN << "num_true_positives", "num_false_positives",
          "num_true_negatives", "num_false_negatives" >>
  ELSE IF metric_type = "silhouettesamples_ious"
  THEN << "num_samples_true_positives", "num_samples_false_positives",
          "num_samples_true_negatives", "num_samples_false_negatives" >>
  ELSE IF metric_type = "joints2Dsamples_l2es"
  THEN << "num_vis_joints2Dsamples", metric_type >>
  ELSE IF metric_type = "measurements_mae"
  THEN METAIL_MEASUREMENTS
  ELSE IF metric_type = "smpl_measurements_mae"
  THEN no_symm \o << "smpl_meas_error_all" >>
  ELSE << metric_type >>

ZeroSums(metrics, no_symm) ==
  LET names == UNION { Range(SlotsOf(metrics[i], no_symm)) : i \in 1..Len(metrics) }
  IN  [k \in names |-> PyFloat(0)]

\* A variant that also starts the sample count again.
InitialiseMetricSumsAndCount ==
  /\ metric_sums' = Dict(ZeroSums(metrics_to_track, ALL_MEAS_NAMES_NO_SYMM))
  /\ total_samples' = 0
  /\ raised' = "none"
  /\ final_metrics' = None
  /\ last_call' = "initialise_metric_sums"
  /\ calls' = AfterInitialiser
  /\ UNCHANGED << config_vars, per_frame_metrics, saved, num_updates, sum_args >>

initialise_metric_sums ==
  /\ metric_sums' = Dict(ZeroSums(metrics_to_track, ALL_MEAS_NAMES_NO_SYMM))
  /\ raised' = "none"
  /\ final_metrics' = None
  /\ last_call' = "initialise_metric_sums"
  /\ calls' = AfterInitialiser
  /\ UNCHANGED << config_vars, total_samples, per_frame_metrics, saved,
                  num_updates, sum_args >>

\* -------------------------------------- initialise_per_frame_metric_lists
EmptyLists(metrics) == [m \in Range(metrics) |-> << >>]

initialise_per_frame_metric_lists ==
  /\ per_frame_metrics' = Dict(EmptyLists(metrics_to_track))
  /\ raised' = "none"
  /\ final_metrics' = None
  /\ last_call' = "initialise_per_frame_metric_lists"
  /\ calls' = AfterInitialiser
  /\ UNCHANGED << config_vars, metric_sums, total_samples, saved,
                  num_updates, sum_args >>

\* ------------------------------------------------------------ the batches
\* The offsets of a prediction from its target along the first axis.
Offs == (0 - 1)..MaxOff

SimpleMetrics ==
  { "pves", "pves_sc", "pves_pa", "pve-ts", "pve-ts_sc", "pve-ts_pa",
    "mpjpes", "mpjpes_sc", "mpjpes_pa", "joints2D_l2es" }

SamplesMinMetrics ==
  { "pves_samples_min", "pves_sc_samples_min", "pves_pa_samples_min",
    "pve-ts_samples_min", "pve-ts_sc_samples_min",
    "mpjpes_samples_min", "mpjpes_sc_samples_min", "mpjpes_pa_samples_min" }

ParamMetrics == { "pose_mses", "shape_mses" }

\* The difference array a block forms from pred_dict and target_dict (after
\* the alignment, for the _sc and _pa metrics).
InputOf(m) ==
  CASE m = "pves" -> "verts"
    [] m = "pves_sc" -> "verts_sc"
    [] m = "pves_pa" -> "verts_pa"
    [] m = "pve-ts" -> "reposed_verts"
    [] m = "pve-ts_sc" -> "reposed_verts_sc"
    [] m = "pve-ts_pa" -> "reposed_verts_pa"
    [] m = "mpjpes" -> "joints3D"
    [] m = "mpjpes_sc" -> "joints3D_sc"
    [] m = "mpjpes_pa" -> "joints3D_pa"
    [] m = "pves_samples_min" -> "verts_samples"
    [] m = "pves_sc_samples_min" -> "verts_samples_sc"
    [] m = "pves_pa_samples_min" -> "verts_samples_pa"
    [] m = "pve-ts_samples_min" -> "reposed_verts_samples"
    [] m = "pve-ts_sc_samples_min" -> "reposed_verts_samples_sc"
    [] m = "mpjpes_samples_min" -> "joints3D_samples"
    [] m = "mpjpes_sc_samples_min" -> "joints3D_samples_sc"
    [] m = "mpjpes_pa_samples_min" -> "joints3D_samples_pa"
    [] m = "pose_mses" -> "pose_params_rot_matrices"
    [] m = "shape_mses" -> "shape_params"
    [] m = "joints2D_l2es" -> "joints2D"

\* The length of the point axis of the arrays a block reads.
PointsOf(m) ==
  CASE m \in { "pves", "pves_sc", "pves_pa", "pve-ts", "pve-ts_sc", "pve-ts_pa",
               "pves_samples_min", "pves_sc_samples_min", "pves_pa_samples_min",
               "pve-ts_samples_min", "pve-ts_sc_samples_min" } -> NumVerts
    [] m \in { "mpjpes", "mpjpes_sc", "mpjpes_pa", "mpjpes_samples_min",
               "mpjpes_sc_samples_min", "mpjpes_pa_samples_min" } -> NumJoints3D
    [] m = "joints2D_l2es" -> NumJoints2D
    [] m = "pose_mses" -> NumPoseElems
    [] m = "shape_mses" -> NumShapeParams

\* The entries of pred_dict and target_dict a configured metric reads.
ChannelsOf(m) ==
  CASE m \in SimpleMetrics \cup SamplesMinMetrics \cup ParamMetrics -> { InputOf(m) }
    [] m = "joints2Dsamples_l2es" -> { "joints2Dsamples", "joints2D_vis" }
    [] m = "silhouette_ious" -> { "silhouettes", "silhouettes_target" }
    [] m = "silhouettesamples_ious" -> { "silhouettessamples", "silhouettes_target" }
    [] m = "measurements_mae" -> { "measurements" }
    [] m = "smpl_measurements_mae" -> { "smpl_measurements" }
    [] OTHER -> {}

Channels(metrics) == UNION { ChannelsOf(metrics[i]) : i \in 1..Len(metrics) }

\* The values one entry takes in a batch of n input samples.  The candidates
\* of one input sample of joints2Dsamples and silhouettessamples are alike.
ChannelValues(ch, n) ==
  CASE ch \in { InputOf(m) : m \in SamplesMinMetrics } ->
         UNION { [1..k -> Offs] : k \in 1..MaxCandidates }
    [] ch = "joints2Dsamples" ->
         { [i \in 1..n |-> [c \in 1..k |-> row[i]]] :
             k \in 1..MaxCandidates, row \in [1..n -> Offs] }
    [] ch = "joints2D_vis" ->
         { [present |-> FALSE, vis |-> << >>] } \cup
         { [present |-> TRUE, vis |-> v] : v \in [1..n -> BOOLEAN] }
    [] ch \in { "silhouettes", "silhouettes_target" } -> [1..n -> BOOLEAN]
    [] ch = "silhouettessamples" ->
         { [i \in 1..n |-> [c \in 1..k |-> row[i]]] :
             k \in 1..MaxCandidates, row \in [1..n -> BOOLEAN] }
    [] ch = "measurements" ->
         { [scalar |-> sc, err |-> e] :
             sc \in (IF n = 1 THEN BOOLEAN ELSE {FALSE}),
             e \in [Range(METAIL_MEASUREMENTS) -> [1..n -> Offs]] }
    [] OTHER -> [1..n -> Offs]

RECURSIVE SetToSeq(_)
SetToSeq(S) ==
  IF S = {} THEN << >>
  ELSE LET x == CHOOSE y \in S : TRUE IN << x >> \o SetToSeq(S \ {x})

RECURSIVE DataOver(_, _)
DataOver(chs, n) ==
  IF chs = << >> THEN { EmptyDict }
  ELSE { (Head(chs) :> v) @@ f :
           v \in ChannelValues(Head(chs), n), f \in DataOver(Tail(chs), n) }

\* The batches a tracker configured with `metrics` is fed: the number of input
\* samples and the entries its blocks read.
Batches(metrics) ==
  UNION { { [n |-> n, data |-> d] : d \in DataOver(SetToSeq(Channels(metrics)), n) } :
            n \in 1..MaxBatch }

\* ------------------------------------------------------- update_per_batch
PyInt(x) == [kind |-> "int", v |-> << x >>]

\* Python's "slot += x": a scalar stays a scalar unless x is an array; an
\* array is added to in place, which broadcasts x but never the array.
IAdd(slot, x) ==
  IF slot.kind # "arr"
  THEN IF x.kind = "int"
       THEN [exc |-> "none", val |-> [kind |-> slot.kind, v |-> << slot.v[1] + x.v[1] >>]]
       ELSE IF x.kind = "f64"
       THEN [exc |-> "none", val |-> NpScalar(slot.v[1] + x.v[1])]
       ELSE [exc |-> "none",
             val |-> NpArray([i \in 1..Len(x.v) |-> slot.v[1] + x.v[i]])]
  ELSE IF x.kind # "arr" \/ Len(x.v) = 1
       THEN [exc |-> "none",
             val |-> NpArray([i \in 1..Len(slot.v) |-> slot.v[i] + x.v[1]])]
       ELSE IF Len(x.v) = Len(slot.v)
       THEN [exc |-> "none",
             val |-> NpArray([i \in 1..Len(slot.v) |-> slot.v[i] + x.v[i]])]
       ELSE [exc |-> "ValueError", val |-> slot]

\* self.metric_sums[key] += x
AddStmt(self, key, x) ==
  IF self.exc # "none" THEN self
  ELSE IF self.sums.none THEN [self EXCEPT !.exc = "TypeError"]
  ELSE LET r == IAdd(self.sums.d[key], x)
       IN  IF r.exc # "none" THEN [self EXCEPT !.exc = r.exc]
           ELSE [self EXCEPT !.sums.d[key] = r.val]

\* self.per_frame_metrics[m].append(item)
AppendStmt(self, m, item) ==
  IF self.exc # "none" THEN self
  ELSE IF self.pf.none THEN [self EXCEPT !.exc = "AttributeError"]
  ELSE [self EXCEPT !.pf.d[m] = Append(@, item)]

\* assert cond
AssertStmt(self, cond) ==
  IF self.exc # "none" \/ cond THEN self
  ELSE [self EXCEPT !.exc = "AssertionError"]

\* np.linalg.norm(..., axis=-1) of the vector (v, 0, 0).
Norm(v) == Abs(v)

\* np.sum of an array whose row i holds `points` copies of rows[i].
SumRows(rows, points) == SumSeq([i \in 1..Len(rows) |-> points * rows[i]])

\* np.mean(..., axis=-1) of one such row.
MeanRow(x, points) == Frac(points * x, points)

\* What is appended to a per-frame list: a one-dimensional array or a scalar.
FrameArray(fracs) == [dim |-> 1, vals |-> fracs]

FrameScalar(frac) == [dim |-> 0, vals |-> << frac >>]

\* The blocks of pves, pves_sc, pves_pa, pve-ts, pve-ts_sc, pve-ts_pa, mpjpes,
\* mpjpes_sc, mpjpes_pa and joints2D_l2es.
SimpleBlock(self, b, m) ==
  LET batch == MapSeq(Norm, b.data[InputOf(m)])
      s1 == AddStmt(self, m, NpScalar(SumRows(batch, PointsOf(m))))
  IN  AppendStmt(s1, m,
        FrameArray([i \in 1..Len(batch) |-> MeanRow(batch[i], PointsOf(m))]))

\* A variant that takes the first candidate.
ArgFirst(xs) == CHOOSE i \in 1..Len(xs) : \A j \in 1..Len(xs) : i <= j

\* np.argmin: the first index of the least value.
ArgMin(xs) ==
  CHOOSE i \in 1..Len(xs) :
    /\ \A j \in 1..Len(xs) : ~ FracLess(xs[j], xs[i])
    /\ \A j \in 1..(i - 1) : FracLess(xs[i], xs[j])

\* A variant without the assertion on the batch size.
SamplesMinBlockUnchecked(self, b, m) ==
  LET per_sample == MapSeq(Norm, b.data[InputOf(m)])
      means == [i \in 1..Len(per_sample) |-> MeanRow(per_sample[i], PointsOf(m))]
      min_sample == ArgMin(means)
      s1 == AddStmt(self, m, NpScalar(SumRows(<< per_sample[min_sample] >>, PointsOf(m))))
  IN  AppendStmt(s1, m, FrameScalar(MeanRow(per_sample[min_sample], PointsOf(m))))

\* The blocks of the eight _samples_min metrics.
SamplesMinBlock(self, b, m) ==
  LET s0 == AssertStmt(self, b.n = 1)
      per_sample == MapSeq(Norm, b.data[InputOf(m)])
      means == [i \in 1..Len(per_sample) |-> MeanRow(per_sample[i], PointsOf(m))]
      min_sample == ArgMin(means)
      s1 == AddStmt(s0, m, NpScalar(SumRows(<< per_sample[min_sample] >>, PointsOf(m))))
  IN  AppendStmt(s1, m, FrameScalar(MeanRow(per_sample[min_sample], PointsOf(m))))

Square(x) == x * x

\* The blocks of pose_mses and shape_mses.
ParamBlock(self, b, m) ==
  AddStmt(self, m, NpScalar(SumRows(MapSeq(Square, b.data[InputOf(m)]), PointsOf(m))))

\* A variant that counts every (sample, candidate, joint) triple, visible or
\* not.
Joints2DSamplesBlockCountingAll(self, b) ==
  LET pred == b.data["joints2Dsamples"]
      mask == b.data["joints2D_vis"]
      num_samples == Len(pred[1])
      l2e_sum == SumSeq([i \in 1..Len(pred) |->
                   SumSeq([k \in 1..num_samples |->
                     IF mask.present => mask.vis[i]
                     THEN NumJoints2D * Norm(pred[i][k]) ELSE 0])])
      s1 == AddStmt(self, "joints2Dsamples_l2es", NpScalar(l2e_sum))
  IN  AddStmt(s1, "num_vis_joints2Dsamples",
              PyInt(Len(pred) * num_samples * NumJoints2D))

\* The block of joints2Dsamples_l2es.  With a visibility mask the boolean
\* index keeps the (sample, candidate, joint) triples of visible joints.
Joints2DSamplesBlock(self, b) ==
  LET pred == b.data["joints2Dsamples"]
      mask == b.data["joints2D_vis"]
      num_samples == Len(pred[1])
      kept == { p \in (1..Len(pred)) \X (1..num_samples) :
                  mask.present => mask.vis[p[1]] }
      l2e_sum == SumSeq([i \in 1..Len(pred) |->
                   SumSeq([k \in 1..num_samples |->
                     IF << i, k >> \in kept
                     THEN NumJoints2D * Norm(pred[i][k]) ELSE 0])])
      l2e_len == Cardinality(kept) * NumJoints2D
      vis_sum == SumSeq([i \in 1..Len(pred) |->
                   IF mask.present /\ mask.vis[i]
                   THEN num_samples * NumJoints2D ELSE 0])
      s0 == AssertStmt(self, mask.present => l2e_len = vis_sum)
      s1 == AddStmt(s0, "joints2Dsamples_l2es", NpScalar(l2e_sum))
  IN  AddStmt(s1, "num_vis_joints2Dsamples", PyInt(l2e_len))

\* The pixels of one image that are counted, for a prediction and a target
\* that are uniform over the image.
CountPixels(cond) == IF cond THEN NumPixels ELSE 0

\* The block of silhouette_ious.
SilhouetteBlock(self, b) ==
  LET pred == b.data["silhouettes"]
      target == b.data["silhouettes_target"]
      num_tp == [i \in 1..Len(pred) |-> CountPixels(pred[i] /\ target[i])]
      num_fp == [i \in 1..Len(pred) |-> CountPixels(pred[i] /\ ~ target[i])]
      num_tn == [i \in 1..Len(pred) |-> CountPixels(~ pred[i] /\ ~ target[i])]
      num_fn == [i \in 1..Len(pred) |-> CountPixels(~ pred[i] /\ target[i])]
      s1 == AddStmt(self, "num_true_positives", NpScalar(SumSeq(num_tp)))
      s2 == AddStmt(s1, "num_false_positives", NpScalar(SumSeq(num_fp)))
      s3 == AddStmt(s2, "num_true_negatives", NpScalar(SumSeq(num_tn)))
      s4 == AddStmt(s3, "num_false_negatives", NpScalar(SumSeq(num_fn)))
      iou_per_frame == [i \in 1..Len(pred) |->
                          Frac(num_tp[i], num_tp[i] + num_fp[i] + num_fn[i])]
  IN  AppendStmt(s4, "silhouette_ious", FrameArray(iou_per_frame))

\* A variant that appends a per-frame IoU as the block of silhouette_ious
\* does.
SilhouetteSamplesBlockAppending(self, b) ==
  LET pred == b.data["silhouettessamples"]
      target == b.data["silhouettes_target"]
      Count(Cond(_, _)) ==
        SumSeq([i \in 1..Len(pred) |->
          SumSeq([k \in 1..Len(pred[i]) |-> CountPixels(Cond(pred[i][k], target[i]))])])
      TP(p, t) == p /\ t
      FP(p, t) == p /\ ~ t
      TN(p, t) == ~ p /\ ~ t
      FN(p, t) == ~ p /\ t
      s1 == AddStmt(self, "num_samples_true_positives", NpScalar(Count(TP)))
      s2 == AddStmt(s1, "num_samples_false_positives", NpScalar(Count(FP)))
      s3 == AddStmt(s2, "num_samples_true_negatives", NpScalar(Count(TN)))
      s4 == AddStmt(s3, "num_samples_false_negatives", NpScalar(Count(FN)))
  IN  AppendStmt(s4, "silhouettesamples_ious",
                 FrameArray([i \in 1..Len(pred) |->
                               Frac(Count(TP), Count(TP) + Count(FP) + Count(FN))]))

\* The block of silhouettesamples_ious; the target is tiled over the
\* candidates.
SilhouetteSamplesBlock(self, b) ==
  LET pred == b.data["silhouettessamples"]
      target == b.data["silhouettes_target"]
      Count(Cond(_, _)) ==
        SumSeq([i \in 1..Len(pred) |->
          SumSeq([k \in 1..Len(pred[i]) |-> CountPixels(Cond(pred[i][k], target[i]))])])
      TP(p, t) == p /\ t
      FP(p, t) == p /\ ~ t
      TN(p, t) == ~ p /\ ~ t
      FN(p, t) == ~ p /\ t
      s1 == AddStmt(self, "num_samples_true_positives", NpScalar(Count(TP)))
      s2 == AddStmt(s1, "num_samples_false_positives", NpScalar(Count(FP)))
      s3 == AddStmt(s2, "num_samples_true_negatives", NpScalar(Count(TN)))
  IN  AddStmt(s3, "num_samples_false_negatives", NpScalar(Count(FN)))

\* The block of measurements_mae: np.abs(error) is added as it is, a scalar
\* for scalar measurements and an array of one value per sample otherwise.
RECURSIVE MeasurementsLoop(_, _, _)
MeasurementsLoop(self, b, i) ==
  IF i > Len(METAIL_MEASUREMENTS) THEN self
  ELSE LET measure == METAIL_MEASUREMENTS[i]
           error == b.data["measurements"].err[measure]
           abs_error == IF b.data["measurements"].scalar
                        THEN NpScalar(Abs(error[1]))
                        ELSE NpArray(MapSeq(Abs, error))
       IN  MeasurementsLoop(AddStmt(self, measure, abs_error), b, i + 1)

MeasurementsBlock(self, b) == MeasurementsLoop(self, b, 1)

\* The block of smpl_measurements_mae.  The measurements of the extractor
\* differ, for sample i, by b.data["smpl_measurements"][i] in every column.
RECURSIVE SmplLoop(_, _, _, _)
SmplLoop(self, error, no_symm, i) ==
  IF i > Len(no_symm) THEN self
  ELSE SmplLoop(AddStmt(self, no_symm[i], NpScalar(SumSeq(MapSeq(Abs, error)))),
                error, no_symm, i + 1)

SmplMeasurementsBlock(self, b, no_symm) ==
  LET error == b.data["smpl_measurements"]
      s1 == SmplLoop(self, error, no_symm, 1)
  IN  AddStmt(s1, "smpl_meas_error_all",
              NpScalar(SumRows(MapSeq(Abs, error), Len(no_symm))))

Block(self, b, m, no_symm) ==
  CASE m \in SimpleMetrics -> SimpleBlock(self, b, m)
    [] m \in SamplesMinMetrics -> SamplesMinBlock(self, b, m)
    [] m \in ParamMetrics -> ParamBlock(self, b, m)
    [] m = "joints2Dsamples_l2es" -> Joints2DSamplesBlock(self, b)
    [] m = "silhouette_ious" -> SilhouetteBlock(self, b)
    [] m = "silhouettesamples_ious" -> SilhouetteSamplesBlock(self, b)
    [] m = "measurements_mae" -> MeasurementsBlock(self, b)
    [] m = "smpl_measurements_mae" -> SmplMeasurementsBlock(self, b, no_symm)

\* The blocks in their fixed order; an exception ends the call.
RECURSIVE RunBlocks(_, _, _, _, _)
RunBlocks(self, b, metrics, no_symm, i) ==
  IF i > Len(DispatchOrder) THEN self
  ELSE RunBlocks(IF DispatchOrder[i] \in Range(metrics) /\ self.exc = "none"
                 THEN Block(self, b, DispatchOrder[i], no_symm)
                 ELSE self,
                 b, metrics, no_symm, i + 1)

\* A variant that counts the samples of a batch only once its blocks returned.
UpdatePerBatchCountingLast(self, b, metrics, no_symm) ==
  LET s == RunBlocks([self EXCEPT !.exc = "none"], b, metrics, no_symm, 1)
  IN  IF s.exc = "none" THEN [s EXCEPT !.total = @ + b.n] ELSE s

\* A variant that takes back what a failing call has done.
UpdatePerBatchAtomic(self, b, metrics, no_symm) ==
  LET s == RunBlocks([self EXCEPT !.total = @ + b.n, !.exc = "none"],
                     b, metrics, no_symm, 1)
  IN  IF s.exc = "none" THEN s ELSE [self EXCEPT !.exc = s.exc]

\* The tracker after update_per_batch(b): total_samples first, then the blocks.
UpdatePerBatch(self, b, metrics, no_symm) ==
  RunBlocks([self EXCEPT !.total = @ + b.n, !.exc = "none"], b, metrics, no_symm, 1)

Tracker == [sums |-> metric_sums, pf |-> per_frame_metrics,
            total |-> total_samples, exc |-> raised]

update_per_batch(b) ==
  /\ num_updates < MaxUpdates
  /\ LET s == UpdatePerBatch(Tracker, b, metrics_to_track, ALL_MEAS_NAMES_NO_SYMM)
     IN  /\ metric_sums' = s.sums
         /\ per_frame_metrics' = s.pf
         /\ total_samples' = s.total
         /\ raised' = s.exc
         /\ calls' = IF calls.on /\ ~ metric_sums.none /\ ~ per_frame_metrics.none
                        /\ s.exc = "none"
                     THEN InOrder(Append(calls.seq, b)) ELSE OutOfOrder
  /\ final_metrics' = None
  /\ last_call' = "update_per_batch"
  /\ num_updates' = num_updates + 1
  /\ sum_args' = sum_args + b.n
  /\ UNCHANGED << config_vars, saved >>

\* -------------------------------------------------- compute_final_metrics
\* Python's "slot / den" for a divisor that is a Python number or the sum of
\* slots of the slot's own kind: a Python float divided by zero raises, numpy
\* gives nan or inf (den = 0 in the quotient).
Div(slot, den) ==
  IF slot.kind = "float" /\ den = 0
  THEN [exc |-> "ZeroDivisionError", val |-> << >>]
  ELSE [exc |-> "none", val |-> [kind |-> slot.kind, num |-> slot.v, den |-> den]]

\* final_metrics[key] = slot / den, as one step of the loop over the metrics.
\* f.d is the dictionary, f.keys its keys in insertion order, f.nps the local
\* num_per_sample (empty while it is unbound).
SetFinal(f, key, slot, den) ==
  IF f.exc # "none" THEN f
  ELSE LET r == Div(slot, den)
       IN  IF r.exc # "none" THEN [f EXCEPT !.exc = r.exc]
           ELSE [f EXCEPT !.d = (key :> r.val) @@ @,
                          !.keys = IF key \in DOMAIN f.d THEN @ ELSE Append(@, key)]

RECURSIVE FinalMeasures(_, _, _, _, _)
FinalMeasures(f, sums, names, total, i) ==
  IF i > Len(names) THEN f
  ELSE FinalMeasures(SetFinal(f, names[i], sums[names[i]], total),
                     sums, names, total, i + 1)

\* A variant that divides the 3D joint errors by the number of 2D joints.
NumPerSampleOfWrongJoints(metric_type, nps) ==
  IF Contains(<< "p", "v", "e" >>, metric_type) THEN << 6890 >>
  ELSE IF Contains(<< "m", "p", "j", "p", "e" >>, metric_type) THEN << 17 >>
  ELSE IF Contains(<< "j", "o", "i", "n", "t", "s", "2", "D", "_" >>, metric_type)
  THEN << 17 >>
  ELSE IF Contains(<< "s", "h", "a", "p", "e", "_", "m", "s", "e" >>, metric_type)
  THEN << 10 >>
  ELSE IF Contains(<< "p", "o", "s", "e", "_", "m", "s", "e" >>, metric_type)
  THEN << 24 * 3 * 3 >>
  ELSE nps

\* The divisor lookup of the last branch; a name no test matches leaves
\* num_per_sample as it was.
NumPerSample(metric_type, nps) ==
  IF Contains(<< "p", "v", "e" >>, metric_type) THEN << 6890 >>
  ELSE IF Contains(<< "m", "p", "j", "p", "e" >>, metric_type) THEN << 14 >>
  ELSE IF Contains(<< "j", "o", "i", "n", "t", "s", "2", "D", "_" >>, metric_type)
  THEN << 17 >>
  ELSE IF Contains(<< "s", "h", "a", "p", "e", "_", "m", "s", "e" >>, metric_type)
  THEN << 10 >>
  ELSE IF Contains(<< "p", "o", "s", "e", "_", "m", "s", "e" >>, metric_type)
  THEN << 24 * 3 * 3 >>
  ELSE nps

\* A variant that leaves the false negatives out of the divisor.
IouWithoutFalseNegatives(f, key, sums, tp, fn, fp) ==
  SetFinal(f, key, sums[tp], sums[tp].v[1] + sums[fp].v[1])

\* final_metrics[key] = TP / (TP + FN + FP) of the named counters.
Iou(f, key, sums, tp, fn, fp) ==
  SetFinal(f, key, sums[tp], sums[tp].v[1] + sums[fn].v[1] + sums[fp].v[1])

\* One pass of the loop "for metric_type in self.metrics_to_track".
FinalStep(f, metric_type, sums, total, no_symm) ==
  IF metric_type = "silhouette_ious"
  THEN Iou(f, "silhouette_ious", sums, "num_true_positives",
           "num_false_negatives", "num_false_positives")
  ELSE IF metric_type = "silhouettesamples_ious"
  THEN Iou(f, "silhouettesamples_ious", sums, "num_samples_true_positives",
           "num_samples_false_negatives", "num_samples_false_positives")
  ELSE IF metric_type = "joints2Dsamples_l2es"
  THEN SetFinal(f, metric_type, sums["joints2Dsamples_l2es"],
                sums["num_vis_joints2Dsamples"].v[1])
  ELSE IF metric_type = "measurements_mae"
  THEN FinalMeasures(f, sums, METAIL_MEASUREMENTS, total, 1)
  ELSE IF metric_type = "smpl_measurements_mae"
  THEN SetFinal(FinalMeasures(f, sums, no_symm, total, 1),
                "smpl_meas_error_all", sums["smpl_meas_error_all"], total * 23)
  ELSE LET nps == NumPerSample(metric_type, f.nps)
       IN  IF nps = << >> THEN [f EXCEPT !.exc = "UnboundLocalError"]
           ELSE SetFinal([f EXCEPT !.nps = nps], metric_type, sums[metric_type],
                         total * nps[1])

RECURSIVE FinalLoop(_, _, _, _, _, _)
FinalLoop(f, metrics, sums, total, no_symm, i) ==
  IF i > Len(metrics) \/ f.exc # "none" THEN f
  ELSE IF sums.none
       THEN [f EXCEPT !.exc =
               IF SlotsOf(metrics[i], no_symm) = << metrics[i] >>
                  /\ NumPerSample(metrics[i], f.nps) = << >>
               THEN "UnboundLocalError" ELSE "TypeError"]
       ELSE FinalLoop(FinalStep(f, metrics[i], sums.d, total, no_symm),
                      metrics, sums, total, no_symm, i + 1)

\* The loop that prints the metrics: comparing an array of several values
\* with 0.3 raises, and so does formatting an array of one value.
RECURSIVE PrintLoop(_, _)
PrintLoop(f, i) ==
  IF i > Len(f.keys) \/ f.exc # "none" THEN f
  ELSE LET val == f.d[f.keys[i]]
       IN  IF val.kind = "arr"
           THEN [f EXCEPT !.exc = IF Len(val.num) > 1 THEN "ValueError" ELSE "TypeError"]
           ELSE PrintLoop(f, i + 1)

\* np.concatenate(list, axis=0) of the per-frame arrays of one metric.
Concatenate(list) ==
  IF list = << >> \/ \E i \in 1..Len(list) : list[i].dim = 0
  THEN [exc |-> "ValueError", val |-> << >>]
  ELSE [exc |-> "none", val |-> Flatten([i \in 1..Len(list) |-> list[i].vals])]

FileName(metric_type) == metric_type \o "_per_frame.npy"

\* The loop that saves the per-frame arrays; w.files are the files written.
RECURSIVE SaveLoop(_, _, _, _)
SaveLoop(w, metrics, pf, i) ==
  IF i > Len(metrics) \/ w.exc # "none" THEN w
  ELSE IF ~ Contains(<< "s", "a", "m", "p", "l", "e", "s" >>, metrics[i])
          /\ ~ Contains(<< "m", "e", "a", "s", "u", "r", "e", "m", "e", "n", "t", "s" >>,
                        metrics[i])
       THEN IF pf.none THEN [w EXCEPT !.exc = "AttributeError"]
            ELSE LET per_frame == Concatenate(pf.d[metrics[i]])
                 IN  IF per_frame.exc # "none" THEN [w EXCEPT !.exc = per_frame.exc]
                     ELSE SaveLoop([w EXCEPT !.files =
                                      (FileName(metrics[i]) :> per_frame.val) @@ @],
                                   metrics, pf, i + 1)
       ELSE SaveLoop(w, metrics, pf, i + 1)

\* The mapping the call builds and prints (it is not returned: the method
\* has no return statement), the files it writes and how it ends.
ComputeFinalMetrics(metrics, sums, total, pf, save, files, no_symm) ==
  LET f0 == [d |-> EmptyDict, keys |-> << >>, nps |-> << >>, exc |-> "none"]
      f1 == FinalLoop(f0, metrics, sums, total, no_symm, 1)
      f2 == PrintLoop(f1, 1)
      w0 == [files |-> files, exc |-> f2.exc]
      w1 == IF save THEN SaveLoop(w0, metrics, pf, 1) ELSE w0
  IN  [final |-> IF f2.exc = "none" THEN Dict(f2.d) ELSE None,
       files |-> w1.files,
       exc |-> w1.exc]

\* A variant that starts the sums and the sample count again once the
\* results are built.
ComputeFinalMetricsAndReset ==
  /\ LET r == ComputeFinalMetrics(metrics_to_track, metric_sums, total_samples,
                                  per_frame_metrics, save_per_frame_metrics,
                                  saved, ALL_MEAS_NAMES_NO_SYMM)
     IN  /\ final_metrics' = r.final
         /\ saved' = r.files
         /\ raised' = r.exc
  /\ metric_sums' = IF metric_sums.none THEN metric_sums
                    ELSE Dict(ZeroSums(metrics_to_track, ALL_MEAS_NAMES_NO_SYMM))
  /\ total_samples' = 0
  /\ last_call' = "compute_final_metrics"
  /\ UNCHANGED << config_vars, per_frame_metrics, num_updates, sum_args, calls >>

compute_final_metrics ==
  /\ LET r == ComputeFinalMetrics(metrics_to_track, metric_sums, total_samples,
                                  per_frame_metrics, save_per_frame_metrics,
                                  saved, ALL_MEAS_NAMES_NO_SYMM)
     IN  /\ final_metrics' = r.final
         /\ saved' = r.files
         /\ raised' = r.exc
  /\ last_call' = "compute_final_metrics"
  /\ UNCHANGED << config_vars, metric_sums, total_samples, per_frame_metrics,
                  num_updates, sum_args, calls >>

\* update_per_batch with any batch the configured blocks can read.
Update == \E b \in Batches(metrics_to_track) : update_per_batch(b)

Next ==
  \/ initialise_metric_sums
  \/ initialise_per_frame_metric_lists
  \/ Update
  \/ compute_final_metrics

Spec == Init /\ [][Next]_vars

\* ================================================================ claims

\* C1: after any sequence of update_per_batch calls, whatever is configured
\* and whether or not a call raised, total_samples is the sum of the
\* num_input_samples of all calls made so far, and no step decreases it.
C1_TotalSamplesIsSumOfArgs ==
  /\ [](total_samples = sum_args)
  /\ [][total_samples' >= total_samples]_vars

\* An update of two samples that raised after an update of one sample.
C1_Witness ==
  /\ num_updates = 2
  /\ raised # "none"
  /\ total_samples = 3
  /\ sum_args = 3

\* The tracker right after both initialisers.
Fresh ==
  [sums |-> Dict(ZeroSums(metrics_to_track, ALL_MEAS_NAMES_NO_SYMM)),
   pf |-> Dict(EmptyLists(metrics_to_track)),
   total |-> 0,
   exc |-> "none"]

\* What compute_final_metrics reports for a tracker: the mapping, or how it
\* raised.
Finalized(self) ==
  LET r == ComputeFinalMetrics(metrics_to_track, self.sums, self.total, self.pf,
                               FALSE, EmptyDict, ALL_MEAS_NAMES_NO_SYMM)
  IN  [final |-> r.final, exc |-> r.exc]

\* Two batches whose arrays can be concatenated along the batch axis: the
\* same number of candidates, and a visibility mask in both or in neither.
Concatenable(b1, b2) ==
  \A ch \in DOMAIN b1.data :
    /\ ch \in { "joints2Dsamples", "silhouettessamples" } =>
         Len(b1.data[ch][1]) = Len(b2.data[ch][1])
    /\ ch = "joints2D_vis" => b1.data[ch].present = b2.data[ch].present

\* One batch of b1.n + b2.n samples holding the data of b1, then of b2.
ConcatBatches(b1, b2) ==
  [n |-> b1.n + b2.n,
   data |-> [ch \in DOMAIN b1.data |->
     IF ch = "joints2D_vis"
     THEN [present |-> b1.data[ch].present,
           vis |-> b1.data[ch].vis \o b2.data[ch].vis]
     ELSE IF ch = "measurements"
     THEN [scalar |-> FALSE,
           err |-> [k \in DOMAIN b1.data[ch].err |->
                      b1.data[ch].err[k] \o b2.data[ch].err[k]]]
     ELSE b1.data[ch] \o b2.data[ch]]]

\* C2: running-sum linearity.  After both initialisers and two updates with
\* batches of sizes a and b, compute_final_metrics reports what it reports
\* after both initialisers and one update with the concatenated batch of
\* size a+b, for every metric family.  (Stated for the families that accept
\* a batch of a+b samples at all: the _samples_min metrics take one sample.)
C2_RunningSumLinearity ==
  ( /\ calls.on
    /\ Len(calls.seq) = 2
    /\ Range(metrics_to_track) \cap SamplesMinMetrics = {}
    /\ Concatenable(calls.seq[1], calls.seq[2]) )
  => Finalized(Tracker) =
       Finalized(UpdatePerBatch(Fresh, ConcatBatches(calls.seq[1], calls.seq[2]),
                                metrics_to_track, ALL_MEAS_NAMES_NO_SYMM))

\* The same statement without measurements_mae: it holds of the other
\* families.
LinearityOfOtherFamilies ==
  "measurements_mae" \notin Range(metrics_to_track) => C2_RunningSumLinearity

\* The point and parameter metrics: one slot each, finalized by the last
\* branch of compute_final_metrics.
PointMetrics == SimpleMetrics \cup SamplesMinMetrics \cup ParamMetrics

\* The per-point values a batch holds for a point or parameter metric: the
\* distances, or the squared differences of a parameter metric.
PerPointValues(m, b) ==
  { IF m \in ParamMetrics THEN Square(x) ELSE Norm(x) :
      x \in Range(b.data[InputOf(m)]) }

\* C3: for every configured point or parameter metric compute_final_metrics
\* gives the slot divided by total_samples times the element count of the
\* family (6890 vertices, 14 joints, 17 2D joints, 10 shape parameters,
\* 24*3*3 pose elements); batches whose per-point values all equal d
\* finalize to d.
C3_PointMetricsDivisor ==
  ~ final_metrics.none =>
    \A m \in Range(metrics_to_track) \cap PointMetrics :
      LET val == final_metrics.d[m]
      IN  /\ val.num = metric_sums.d[m].v
          /\ Len(val.num) = 1
          /\ val.den = total_samples * PointsOf(m)
          /\ \A d \in 0..(MaxOff + 1) :
               ( /\ calls.on
                 /\ calls.seq # << >>
                 /\ \A i \in 1..Len(calls.seq) : PerPointValues(m, calls.seq[i]) = {d} )
               => FracEq(Frac(val.num[1], val.den), Frac(d, 1))

\* Two batches, three samples, every joint off by 1: mpjpes finalized.
C3_Witness ==
  /\ ~ final_metrics.none
  /\ "mpjpes" \in Range(metrics_to_track)
  /\ calls.on
  /\ Len(calls.seq) = 2
  /\ total_samples = 3
  /\ \A i \in 1..Len(calls.seq) : PerPointValues("mpjpes", calls.seq[i]) = {1}
  /\ FracEq(Frac(final_metrics.d["mpjpes"].num[1], final_metrics.d["mpjpes"].den),
            Frac(1, 1))

\* C4: with an identifier of no recognised family in the metric list,
\* compute_final_metrics fails, in every order of the list; it never builds
\* a value for that identifier with some divisor.
C4_UnknownFamilyFails ==
  ( /\ UnknownMetric \in Range(metrics_to_track)
    /\ last_call = "compute_final_metrics" )
  => /\ raised # "none"
     /\ final_metrics.none

ConfiguredSamplesMin == Range(metrics_to_track) \cap SamplesMinMetrics

\* C5: with a best-of-samples metric configured, an update_per_batch call
\* with num_input_samples other than 1 fails (with the assertion, once both
\* initialisers have run) and adds nothing to that metric's slot or history.
C5_SamplesMinNeedsOneSample ==
  [][ ( /\ num_updates' = num_updates + 1
        /\ sum_args' - sum_args # 1
        /\ ConfiguredSamplesMin # {} )
      => /\ raised' # "none"
         /\ (~ metric_sums.none /\ ~ per_frame_metrics.none)
              => raised' = "AssertionError"
         /\ \A m \in ConfiguredSamplesMin :
              /\ metric_sums'.none = metric_sums.none
              /\ ~ metric_sums.none => metric_sums'.d[m] = metric_sums.d[m]
              /\ per_frame_metrics'.none = per_frame_metrics.none
              /\ ~ per_frame_metrics.none
                   => per_frame_metrics'.d[m] = per_frame_metrics.d[m] ]_vars

\* A first update with two input samples, refused by pves_samples_min.
C5_Witness ==
  /\ "pves_samples_min" \in Range(metrics_to_track)
  /\ last_call = "update_per_batch"
  /\ raised = "AssertionError"
  /\ num_updates = 1
  /\ total_samples = 2
  /\ ~ metric_sums.none
  /\ metric_sums.d["pves_samples_min"] = PyFloat(0)

\* The candidate the claim names: the least distance, the lowest index on ties.
BestCandidate(dists) ==
  CHOOSE i \in 1..Len(dists) :
    /\ \A j \in 1..Len(dists) : dists[i] <= dists[j]
    /\ \A j \in 1..(i - 1) : dists[j] > dists[i]

\* C6: one update of a best-of-samples metric adds to its slot exactly the
\* per-point distance sum of the candidate with the least mean distance to
\* the target (the lowest index on ties), and appends that candidate's mean.
C6_BestOfSamples ==
  [][ ( /\ calls'.on
        /\ Len(calls'.seq) = Len(calls.seq) + 1 )
      => \A m \in ConfiguredSamplesMin :
           LET b == calls'.seq[Len(calls'.seq)]
               dists == MapSeq(Norm, b.data[InputOf(m)])
               best == dists[BestCandidate(dists)]
           IN  /\ metric_sums'.d[m].v[1] - metric_sums.d[m].v[1] = PointsOf(m) * best
               /\ Len(per_frame_metrics'.d[m]) = Len(per_frame_metrics.d[m]) + 1
               /\ LET item == per_frame_metrics'.d[m][Len(per_frame_metrics'.d[m])]
                  IN  /\ item.dim = 0
                      /\ FracEq(item.vals[1], Frac(best, 1)) ]_vars

\* One update whose first candidate is off by 1 and whose second candidate
\* is exact: nothing is added, and 0 is appended.
C6_Witness ==
  /\ "pves_samples_min" \in Range(metrics_to_track)
  /\ calls.on
  /\ Len(calls.seq) = 1
  /\ calls.seq[1].data["verts_samples"] = << -1, 0 >>
  /\ metric_sums.d["pves_samples_min"] = NpScalar(0)
  /\ per_frame_metrics.d["pves_samples_min"] = << FrameScalar(Frac(0, NumVerts)) >>

\* The pixels of the recorded batches that a condition on (prediction,
\* target) holds of, for silhouette_ious and for silhouettesamples_ious.
PixelsOverCalls(Cond(_, _)) ==
  SumSeq([c \in 1..Len(calls.seq) |->
    LET b == calls.seq[c]
    IN  SumSeq([i \in 1..b.n |->
          IF Cond(b.data["silhouettes"][i], b.data["silhouettes_target"][i])
          THEN NumPixels ELSE 0])])

SamplePixelsOverCalls(Cond(_, _)) ==
  SumSeq([c \in 1..Len(calls.seq) |->
    LET b == calls.seq[c]
    IN  SumSeq([i \in 1..b.n |->
          SumSeq([k \in 1..Len(b.data["silhouettessamples"][i]) |->
            IF Cond(b.data["silhouettessamples"][i][k], b.data["silhouettes_target"][i])
            THEN NumPixels ELSE 0])])])

IsTP(p, t) == p /\ t

IsFP(p, t) == p /\ ~ t

IsFN(p, t) == ~ p /\ t

\* The statement of C7 for one IoU metric: its value val, its counters, and
\* the pixel counts tp, fp, fn of the recorded batches.
IouClaim(val, tp_slot, fp_slot, fn_slot, tp, fp, fn) ==
  /\ val.num = metric_sums.d[tp_slot].v
  /\ val.den = metric_sums.d[tp_slot].v[1] + metric_sums.d[fp_slot].v[1]
                 + metric_sums.d[fn_slot].v[1]
  /\ (calls.on /\ calls.seq # << >>) =>
       /\ val.num = << tp >>
       /\ val.den = tp + fp + fn
       /\ (tp > 0 /\ fp = 0 /\ fn = 0) => FracEq(Frac(val.num[1], val.den), Frac(1, 1))
       /\ (tp = 0 /\ fp + fn > 0) => FracEq(Frac(val.num[1], val.den), Frac(0, 1))

\* C7: for silhouette_ious and silhouettesamples_ious compute_final_metrics
\* gives TP / (TP + FP + FN) of the pixel counts accumulated over all
\* batches, true negatives left out: 1 when every prediction equals its
\* all-foreground target, 0 when prediction and target are disjoint and not
\* both empty.
C7_IouOfAccumulatedCounts ==
  ~ final_metrics.none =>
    /\ "silhouette_ious" \in Range(metrics_to_track) =>
         IouClaim(final_metrics.d["silhouette_ious"], "num_true_positives",
                  "num_false_positives", "num_false_negatives",
                  PixelsOverCalls(IsTP), PixelsOverCalls(IsFP), PixelsOverCalls(IsFN))
    /\ "silhouettesamples_ious" \in Range(metrics_to_track) =>
         IouClaim(final_metrics.d["silhouettesamples_ious"],
                  "num_samples_true_positives", "num_samples_false_positives",
                  "num_samples_false_negatives",
                  SamplePixelsOverCalls(IsTP), SamplePixelsOverCalls(IsFP),
                  SamplePixelsOverCalls(IsFN))

\* Two batches with a hit, a miss and a false alarm: IoU 1/3, whatever the
\* true negatives.
C7_Witness ==
  /\ "silhouette_ious" \in Range(metrics_to_track)
  /\ ~ final_metrics.none
  /\ calls.on
  /\ Len(calls.seq) = 2
  /\ PixelsOverCalls(IsTP) = NumPixels
  /\ PixelsOverCalls(IsFP) = NumPixels
  /\ PixelsOverCalls(IsFN) = NumPixels
  /\ FracEq(Frac(final_metrics.d["silhouette_ious"].num[1],
                 final_metrics.d["silhouette_ious"].den), Frac(1, 3))

\* The (sample, candidate, joint) triples of a batch whose distance counts:
\* all of them without a visibility mask, those of visible joints with one.
CountedTriples(b) ==
  { t \in (1..b.n) \X (1..Len(b.data["joints2Dsamples"][1])) \X (1..NumJoints2D) :
      b.data["joints2D_vis"].present => b.data["joints2D_vis"].vis[t[1]] }

DistanceOfTriples(b) ==
  SumSeq([i \in 1..b.n |->
    SumSeq([k \in 1..Len(b.data["joints2Dsamples"][i]) |->
      Cardinality({ t \in CountedTriples(b) : t[1] = i /\ t[2] = k })
        * Norm(b.data["joints2Dsamples"][i][k])])])

\* C8: for joints2Dsamples_l2es every update adds to num_vis_joints2Dsamples
\* the number of (sample, candidate, joint) triples whose distance it adds
\* to the error slot, and compute_final_metrics gives the error sum divided
\* by that count, not by total_samples.
C8_VisiblePairCount ==
  "joints2Dsamples_l2es" \in Range(metrics_to_track) =>
    /\ (calls.on /\ calls.seq # << >>) =>
         /\ metric_sums.d["num_vis_joints2Dsamples"].v[1] =
              SumSeq([c \in 1..Len(calls.seq) |-> Cardinality(CountedTriples(calls.seq[c]))])
         /\ metric_sums.d["joints2Dsamples_l2es"].v[1] =
              SumSeq([c \in 1..Len(calls.seq) |-> DistanceOfTriples(calls.seq[c])])
    /\ ~ final_metrics.none =>
         /\ final_metrics.d["joints2Dsamples_l2es"].num =
              metric_sums.d["joints2Dsamples_l2es"].v
         /\ final_metrics.d["joints2Dsamples_l2es"].den =
              metric_sums.d["num_vis_joints2Dsamples"].v[1]

\* One batch of two samples and two candidates, only the second sample
\* visible, every joint off by 1: 34 triples counted, the result is 1.
C8_Witness ==
  /\ "joints2Dsamples_l2es" \in Range(metrics_to_track)
  /\ ~ final_metrics.none
  /\ calls.on
  /\ Len(calls.seq) = 1
  /\ calls.seq[1].n = 2
  /\ calls.seq[1].data["joints2D_vis"] = [present |-> TRUE, vis |-> << FALSE, TRUE >>]
  /\ calls.seq[1].data["joints2Dsamples"] = << << -1, -1 >>, << -1, -1 >> >>
  /\ final_metrics.d["joints2Dsamples_l2es"].num = << 2 * NumJoints2D >>
  /\ final_metrics.d["joints2Dsamples_l2es"].den = 2 * NumJoints2D

\* C9: for smpl_measurements_mae compute_final_metrics gives each canonical
\* measurement's slot divided by total_samples and the slot
\* smpl_meas_error_all divided by total_samples times the number of names in
\* the configured canonical non-symmetric list, for every length of the list.
C9_SmplAggregateDivisor ==
  ( /\ "smpl_measurements_mae" \in Range(metrics_to_track)
    /\ ~ final_metrics.none )
  => /\ \A measure \in Range(ALL_MEAS_NAMES_NO_SYMM) :
          /\ final_metrics.d[measure].num = metric_sums.d[measure].v
          /\ final_metrics.d[measure].den = total_samples
     /\ final_metrics.d["smpl_meas_error_all"].num = metric_sums.d["smpl_meas_error_all"].v
     /\ final_metrics.d["smpl_meas_error_all"].den =
          total_samples * Len(ALL_MEAS_NAMES_NO_SYMM)

\* The metrics whose per-frame arrays compute_final_metrics is to persist.
IsPersisted(m) ==
  /\ ~ Contains(<< "s", "a", "m", "p", "l", "e", "s" >>, m)
  /\ ~ Contains(<< "m", "e", "a", "s", "u", "r", "e", "m", "e", "n", "t", "s" >>, m)

\* C10: with per-frame saving enabled, after both initialisers and a
\* non-empty sequence of updates compute_final_metrics succeeds and, for
\* every configured metric whose name holds neither "samples" nor
\* "measurements" (pose_mses and shape_mses among them), has written one
\* array <metric>_per_frame: the per-batch history of the metric
\* concatenated in update order, one value per input sample.  (Stated for
\* trackers of the point and parameter metrics.)
C10_PerFrameArraysPersisted ==
  ( /\ save_per_frame_metrics
    /\ calls.on
    /\ calls.seq # << >>
    /\ last_call = "compute_final_metrics"
    /\ Range(metrics_to_track) \subseteq PointMetrics )
  => /\ raised = "none"
     /\ \A m \in Range(metrics_to_track) :
          IF IsPersisted(m)
          THEN /\ FileName(m) \in DOMAIN saved
               /\ saved[FileName(m)] =
                    Flatten([i \in 1..Len(per_frame_metrics.d[m]) |->
                               per_frame_metrics.d[m][i].vals])
               /\ Len(saved[FileName(m)]) = total_samples
          ELSE FileName(m) \notin DOMAIN saved

\* The same statement for the metrics whose blocks append to the history:
\* it holds of them.
PerFrameArraysOfSimpleMetrics ==
  Range(metrics_to_track) \cap ParamMetrics = {} => C10_PerFrameArraysPersisted

\* C11: initialise_per_frame_metric_lists has to run before the first update
\* only if per-frame saving is enabled: with save_per_frame_metrics disabled
\* and only initialise_metric_sums called, update_per_batch of configured
\* simple metrics (pves and its like) succeeds without the per-frame lists.
C11_UpdateNeedsNoPerFrameLists ==
  ( /\ last_call = "update_per_batch"
    /\ ~ save_per_frame_metrics
    /\ ~ metric_sums.none
    /\ per_frame_metrics.none
    /\ Range(metrics_to_track) \subseteq SimpleMetrics )
  => raised = "none"

\* After both initialisers the same updates do succeed.
UpdateAfterBothInitialisers ==
  ( /\ last_call = "update_per_batch"
    /\ ~ metric_sums.none
    /\ ~ per_frame_metrics.none
    /\ Range(metrics_to_track) \subseteq SimpleMetrics )
  => raised = "none"

\* The metrics the claim calls sample metrics and measurement metrics.
SampleMetrics ==
  SamplesMinMetrics \cup { "joints2Dsamples_l2es", "silhouettesamples_ious" }

MeasurementMetrics == { "measurements_mae", "smpl_measurements_mae" }

\* The metrics without a per-frame history in the code: the sample metrics
\* other than the best-of-samples ones, the measurement metrics and the
\* parameter metrics.
MetricsWithoutHistory ==
  { "joints2Dsamples_l2es", "silhouettesamples_ious" } \cup MeasurementMetrics
    \cup ParamMetrics

\* C12 as stated: the per-frame history of every configured sample metric
\* (the _samples_min metrics, joints2Dsamples_l2es, silhouettesamples_ious)
\* and measurement metric is empty after any sequence of updates.
C12_NoHistoryForSampleMetrics ==
  ~ per_frame_metrics.none =>
    \A m \in Range(metrics_to_track) \cap (SampleMetrics \cup MeasurementMetrics) :
      per_frame_metrics.d[m] = << >>

\* C12, amended: the history of joints2Dsamples_l2es, silhouettesamples_ious,
\* the measurement metrics and the parameter metrics is empty after any
\* sequence of updates; an update that returns appends one array of
\* num_input_samples values to the history of every configured simple metric
\* and one scalar to that of every configured _samples_min metric; and an
\* update changes neither the set of slot names nor the set of histories.
C12_HistoryOfSimpleAndBestOfSamples ==
  /\ [](~ per_frame_metrics.none =>
          \A m \in Range(metrics_to_track) \cap MetricsWithoutHistory :
            per_frame_metrics.d[m] = << >>)
  /\ [][ num_updates' = num_updates + 1 =>
           /\ metric_sums'.none = metric_sums.none
           /\ ~ metric_sums.none => DOMAIN metric_sums'.d = DOMAIN metric_sums.d
           /\ per_frame_metrics'.none = per_frame_metrics.none
           /\ ~ per_frame_metrics.none =>
                /\ DOMAIN per_frame_metrics'.d = DOMAIN per_frame_metrics.d
                /\ \A m \in DOMAIN per_frame_metrics.d :
                     LET old == per_frame_metrics.d[m]
                         new == per_frame_metrics'.d[m]
                     IN  IF raised' = "none" /\ m \in SimpleMetrics \cup { "silhouette_ious" }
                         THEN /\ Len(new) = Len(old) + 1
                              /\ SubSeq(new, 1, Len(old)) = old
                              /\ new[Len(new)].dim = 1
                              /\ Len(new[Len(new)].vals) = sum_args' - sum_args
                         ELSE IF raised' = "none" /\ m \in SamplesMinMetrics
                         THEN /\ Len(new) = Len(old) + 1
                              /\ SubSeq(new, 1, Len(old)) = old
                              /\ new[Len(new)].dim = 0
                         ELSE IF m \in SimpleMetrics \cup SamplesMinMetrics
                                   \cup { "silhouette_ious" }
                         THEN new = old \/ (Len(new) = Len(old) + 1
                                            /\ SubSeq(new, 1, Len(old)) = old)
                         ELSE new = old ]_vars

\* Two updates of silhouettesamples_ious have returned and its history is
\* empty.
C12_Witness ==
  /\ "silhouettesamples_ious" \in Range(metrics_to_track)
  /\ calls.on
  /\ Len(calls.seq) = 2
  /\ per_frame_metrics.d["silhouettesamples_ious"] = << >>
  /\ metric_sums.d["num_samples_true_positives"].v[1] > 0

\* The slots update_per_batch adds to and compute_final_metrics reads for one
\* configured metric.
SlotsRead(m) ==
  CASE m = "silhouette_ious" ->
         { "num_true_positives", "num_false_positives",
           "num_true_negatives", "num_false_negatives" }
    [] m = "silhouettesamples_ious" ->
         { "num_samples_true_positives", "num_samples_false_positives",
           "num_samples_true_negatives", "num_samples_false_negatives" }
    [] m = "joints2Dsamples_l2es" ->
         { "joints2Dsamples_l2es", "num_vis_joints2Dsamples" }
    [] m = "measurements_mae" -> Range(METAIL_MEASUREMENTS)
    [] m = "smpl_measurements_mae" ->
         Range(ALL_MEAS_NAMES_NO_SYMM) \cup { "smpl_meas_error_all" }
    [] OTHER -> { m }

AllSlotsRead == UNION { SlotsRead(m) : m \in Range(metrics_to_track) }

\* C13: after initialise_metric_sums every slot that update_per_batch or
\* compute_final_metrics reads exists and is zero (four confusion counters
\* per IoU metric, error sum and visible-pair count for joints2Dsamples_l2es,
\* one slot per measurement name and the aggregate for the SMPL measurements,
\* one slot otherwise); no later call changes the set of slot names; and an
\* update of a known metric issued before initialise_metric_sums fails and
\* leaves the slots unwritten.
C13_SlotsInitialisedBeforeUse ==
  /\ [](last_call = "initialise_metric_sums" =>
          /\ ~ metric_sums.none
          /\ DOMAIN metric_sums.d = AllSlotsRead
          /\ \A k \in AllSlotsRead : metric_sums.d[k] = PyFloat(0))
  /\ [](~ metric_sums.none => AllSlotsRead \subseteq DOMAIN metric_sums.d)
  /\ [][ ~ metric_sums.none =>
           /\ ~ metric_sums'.none
           /\ DOMAIN metric_sums'.d = DOMAIN metric_sums.d ]_vars
  /\ [][ ( /\ num_updates' = num_updates + 1
           /\ metric_sums.none
           /\ Range(metrics_to_track) \cap KnownMetrics # {} )
         => /\ raised' # "none"
            /\ metric_sums'.none ]_vars

\* joints2Dsamples_l2es after two updates that returned: both of its slots
\* are there, and the pair count was added to.
C13_Witness ==
  /\ "joints2Dsamples_l2es" \in Range(metrics_to_track)
  /\ calls.on
  /\ Len(calls.seq) = 2
  /\ DOMAIN metric_sums.d = { "joints2Dsamples_l2es", "num_vis_joints2Dsamples" }
  /\ metric_sums.d["num_vis_joints2Dsamples"].v[1] > 0

\* The sum over the recorded batches of |prediction - target| of one named
\* measurement.
AbsErrorOverCalls(measure) ==
  SumSeq([c \in 1..Len(calls.seq) |->
    SumSeq(MapSeq(Abs, calls.seq[c].data["measurements"].err[measure]))])

\* C14: for measurements_mae, after any sequence of updates with any batch
\* sizes each named measurement slot is a single scalar, the sum over all
\* samples seen so far of |predicted - target measurement|, and
\* compute_final_metrics gives that scalar divided by total_samples for each
\* measurement name.
C14_MeasurementSlotsAreScalarSums ==
  ( /\ "measurements_mae" \in Range(metrics_to_track)
    /\ calls.on
    /\ calls.seq # << >> )
  => \A measure \in Range(METAIL_MEASUREMENTS) :
       /\ metric_sums.d[measure].kind # "arr"
       /\ metric_sums.d[measure].v = << AbsErrorOverCalls(measure) >>
       /\ last_call = "compute_final_metrics" =>
            /\ raised = "none"
            /\ ~ final_metrics.none
            /\ final_metrics.d[measure].num = << AbsErrorOverCalls(measure) >>
            /\ final_metrics.d[measure].den = total_samples

\* The same statement for batches whose measurements are scalars (one input
\* sample, no batch axis): it holds of them.
MeasurementSlotsOfScalarBatches ==
  ( \A c \in 1..Len(calls.seq) :
      "measurements" \in DOMAIN calls.seq[c].data
        => calls.seq[c].data["measurements"].scalar )
  => C14_MeasurementSlotsAreScalarSums

\* The sum of the per-point distances of a simple metric over the recorded
\* batches, and the samples these batches hold.
DistancesOverCalls(m) ==
  SumSeq([c \in 1..Len(calls.seq) |->
    SumSeq([i \in 1..calls.seq[c].n |->
      PointsOf(m) * Norm(calls.seq[c].data[InputOf(m)][i])])])

SamplesOverCalls == SumSeq([c \in 1..Len(calls.seq) |-> calls.seq[c].n])

\* C15: compute_final_metrics may be called after any number k >= 1 of
\* updates and builds its values from exactly those k batches; without
\* per-frame saving it changes neither total_samples, nor a slot, nor a
\* per-frame history, so that a second call right after it gives the same
\* result and the updates that follow continue the same running sums.
C15_FinalizeOnlyReads ==
  /\ [][ (last_call' = "compute_final_metrics" /\ ~ save_per_frame_metrics) =>
           /\ metric_sums' = metric_sums
           /\ total_samples' = total_samples
           /\ per_frame_metrics' = per_frame_metrics ]_vars
  /\ [][ ( /\ last_call = "compute_final_metrics"
           /\ last_call' = "compute_final_metrics"
           /\ ~ save_per_frame_metrics )
         => /\ final_metrics' = final_metrics
            /\ raised' = raised ]_vars
  /\ []( (~ save_per_frame_metrics /\ calls.on /\ calls.seq # << >>) =>
           /\ total_samples = SamplesOverCalls
           /\ \A m \in Range(metrics_to_track) \cap SimpleMetrics :
                /\ metric_sums.d[m].v = << DistancesOverCalls(m) >>
                /\ ~ final_metrics.none =>
                     /\ final_metrics.d[m].num = << DistancesOverCalls(m) >>
                     /\ final_metrics.d[m].den = SamplesOverCalls * PointsOf(m) )

\* The results after the first of the updates: one batch of one sample,
\* every vertex off by 1.
C15_Witness ==
  /\ "pves" \in Range(metrics_to_track)
  /\ ~ save_per_frame_metrics
  /\ last_call = "compute_final_metrics"
  /\ ~ final_metrics.none
  /\ calls.on
  /\ Len(calls.seq) = 1
  /\ num_updates = 1
  /\ final_metrics.d["pves"].num = << NumVerts >>
  /\ final_metrics.d["pves"].den = NumVerts

\* The place of a metric's block in update_per_batch.
Position(m) == CHOOSE i \in 1..Len(DispatchOrder) : DispatchOrder[i] = m

\* The block whose assertion refuses a batch of n input samples: the first
\* configured best-of-samples block if n is not 1, else the block of
\* joints2Dsamples_l2es.
Refusing(n) ==
  IF n # 1 /\ ConfiguredSamplesMin # {}
  THEN CHOOSE m \in ConfiguredSamplesMin :
         \A o \in ConfiguredSamplesMin : Position(m) <= Position(o)
  ELSE "joints2Dsamples_l2es"

\* C16: an update_per_batch call that fails an assertion is not atomic:
\* total_samples has been increased by num_input_samples, the slot and the
\* per-frame history of every configured simple metric handled before the
\* failing block include the failing batch, and the slots and histories of
\* the metrics handled from the failing block on are as they were.
C16_FailedUpdateIsNotAtomic ==
  [][ ( /\ num_updates' = num_updates + 1
        /\ raised' = "AssertionError" )
      => LET n == sum_args' - sum_args
         IN  /\ total_samples' = total_samples + n
             /\ metric_sums'.none = metric_sums.none
             /\ per_frame_metrics'.none = per_frame_metrics.none
             /\ (~ metric_sums.none /\ ~ per_frame_metrics.none) =>
                  \E b \in Batches(metrics_to_track) :
                    /\ b.n = n
                    /\ \A m \in Range(metrics_to_track) \cap KnownMetrics :
                         IF Position(m) < Position(Refusing(n))
                         THEN m \in SimpleMetrics =>
                                /\ metric_sums'.d[m].v[1] = metric_sums.d[m].v[1]
                                     + SumSeq([i \in 1..n |->
                                         PointsOf(m) * Norm(b.data[InputOf(m)][i])])
                                /\ per_frame_metrics'.d[m] =
                                     Append(per_frame_metrics.d[m],
                                       FrameArray([i \in 1..n |->
                                         Frac(PointsOf(m) * Norm(b.data[InputOf(m)][i]),
                                              PointsOf(m))]))
                         ELSE /\ \A k \in SlotsRead(m) :
                                   metric_sums'.d[k] = metric_sums.d[k]
                              /\ per_frame_metrics'.d[m] = per_frame_metrics.d[m] ]_vars

\* A batch of two samples, every vertex off by 1, refused by
\* pves_samples_min after the block of pves took it.
C16_Witness ==
  /\ Range(metrics_to_track) = { "pves", "pves_samples_min" }
  /\ last_call = "update_per_batch"
  /\ raised = "AssertionError"
  /\ num_updates = 1
  /\ total_samples = 2
  /\ metric_sums.d["pves"] = NpScalar(2 * NumVerts)
  /\ Len(per_frame_metrics.d["pves"]) = 1
  /\ metric_sums.d["pves_samples_min"] = PyFloat(0)
  /\ per_frame_metrics.d["pves_samples_min"] = << >>

\* C17: initialise_metric_sums sets every slot to zero and leaves
\* total_samples and the per-frame histories as they are: called again after
\* updates it drops the sums while total_samples still counts the earlier
\* batches, so the results built afterwards are divided by a sample count
\* that includes the batches whose sums were dropped.
C17_ReinitialiseKeepsTotalSamples ==
  /\ [][ last_call' = "initialise_metric_sums" =>
           /\ ~ metric_sums'.none
           /\ \A k \in DOMAIN metric_sums'.d : metric_sums'.d[k] = PyFloat(0)
           /\ total_samples' = total_samples
           /\ per_frame_metrics' = per_frame_metrics ]_vars
  /\ [](~ final_metrics.none =>
          \A m \in Range(metrics_to_track) \cap PointMetrics :
            /\ final_metrics.d[m].num = metric_sums.d[m].v
            /\ final_metrics.d[m].den = sum_args * PointsOf(m))

\* An update of two samples, then initialise_metric_sums again, then the
\* results: pves is 0 over two samples, with the batch still in its history.
C17_Witness ==
  /\ "pves" \in Range(metrics_to_track)
  /\ ~ final_metrics.none
  /\ num_updates = 1
  /\ total_samples = 2
  /\ ~ per_frame_metrics.none
  /\ Len(per_frame_metrics.d["pves"]) = 1
  /\ metric_sums.d["pves"] = PyFloat(0)
  /\ final_metrics.d["pves"].num = << 0 >>
  /\ final_metrics.d["pves"].den = 2 * NumVerts

====
